---- MODULE Spec2Model ----
(***************************************************************************)
(* Model of src/src/js/admin-session.js: the AdminSessionManager class     *)
(* (session record in localStorage mirrored by in-memory fields, activity  *)
(* tracking, inactivity prompt, page guard), and the header and footer     *)
(* component loader of the same file.  The two share no state.             *)
(*                                                                         *)
(* Time is Date.now() in milliseconds.  One handler runs at one clock      *)
(* value; the clock advances between handlers and while the blocking       *)
(* confirm() dialog of showInactivityWarning is open.                      *)
(*                                                                         *)
(* JavaScript values are encoded so that TLC can compare them:             *)
(*   - a timestamp that is null, undefined or 0 is 0 (the code only ever   *)
(*     tests timestamps for truthiness and compares them with Date.now()); *)
(*   - a string property that is absent is "undefined";                    *)
(*   - an object reference carries its identity in the field ref, null is  *)
(*     the record of kind "null".                                          *)
(***************************************************************************)
EXTENDS Integers, FiniteSets, Sequences, TLC

VARIABLES
    now,              \* Date.now()
    ticks,            \* number of clock advances so far (bounded)
    storage,          \* localStorage[SESSION_KEY]: the stored text
    currentUser,      \* this.currentUser
    sessionExpiry,    \* this.sessionExpiry
    lastActivity,     \* this.lastActivity
    isInitialized,    \* this.isInitialized
    activityThrottle, \* closure variable of setupActivityTracking
    timer,            \* deadline of the pending setTimeout, 0 when none
    pc,               \* "idle", "confirm" (blocked in confirm()), "navigating", "crashed"
    caller,           \* the operation blocked in confirm(), "none" otherwise
    prompts,          \* confirm() dialogs shown by the operation in progress
    path,             \* window.location.pathname
    containers,       \* the page has both #loginScreen and #adminDashboard
    view,             \* style.display of #loginScreen and of #adminDashboard
    lastOp,           \* the operation the last step ran
    arg,              \* the user passed to the last createSession
    required,         \* the role passed to the hasPermission call of the last step
    ret,              \* what the last operation returned
    retUser,          \* the object the last getCurrentUser returned
    answer,           \* the answer the last step gave to confirm(), "none" otherwise
    threw,            \* storage calls that threw during the last step
    was,              \* status of the in-memory session when the last step began
    seen,             \* kind of the stored text when the last step began
    externals,        \* writes of the storage key by others so far (bounded)
    handlerCalled,    \* the last step's handleActivity called updateActivity
    tracked,          \* when this page's handleActivity last called updateActivity,
                      \* if that is less than throttleDelay ago; 0 otherwise
    peer,             \* the in-memory fields of the manager of a second tab
    protocol,         \* location.protocol
    present,          \* per component: its container is in the document
    innerHTML,        \* per component: what was last assigned to container.innerHTML
    response,         \* per component: the fetch and its response
    loaded,           \* per component: the promise loadHTMLComponent returned
    entry,            \* where the loader's DOMContentLoaded handler is
    inits,            \* runs of initializeComponentFeatures
    notice            \* the error notification of handleComponentError

managerVars == <<now, ticks, storage, currentUser, sessionExpiry, lastActivity,
          isInitialized, activityThrottle, timer, pc, caller, prompts, path,
          containers, view, lastOp, arg, required, ret, retUser, answer, threw,
          was, seen, externals, handlerCalled, tracked, peer>>

loaderVars == <<protocol, present, innerHTML, response, loaded, entry, inits, notice>>

vars == <<managerVars, loaderVars>>

----------------------------------------------------------------------------
(* Configuration constants of the constructor and of setupActivityTracking *)

SESSION_TIMEOUT == 24 * 60 * 60 * 1000

ACTIVITY_TIMEOUT == 30 * 60 * 1000

throttleDelay == 30000

----------------------------------------------------------------------------
(* Bounds of the model *)

\* Date.now() when the model starts
StartTime == 100000000

\* how many times the clock advances
MaxTicks == 1

\* how many times another tab or script writes the storage key
MaxExternal == 1

\* how many confirm() dialogs one operation may show
MaxPrompts == 2

\* how many times the clock advances between the activity events of a user
\* who keeps interacting
MaxGaps == 3

\* amounts by which the clock advances
Jumps == {1, throttleDelay, ACTIVITY_TIMEOUT + 1, SESSION_TIMEOUT}

\* times between two activity events of a user who keeps interacting: all
\* less than ACTIVITY_TIMEOUT
Gaps == {2, throttleDelay, ACTIVITY_TIMEOUT - 1}

----------------------------------------------------------------------------
(* Values *)

NullUser == [kind |-> "null", ref |-> "none", id |-> "undefined",
             username |-> "undefined", role |-> "undefined"]

User(ref, id, username, role) ==
    [kind |-> "object", ref |-> ref, id |-> id, username |-> username, role |-> role]

\* !v for a string-valued (or absent) property
FalsyStr(s) == s \in {"undefined", ""}

\* !v for an object reference
FalsyObj(u) == u.kind = "null"

\* !v for a timestamp
FalsyNum(n) == n = 0

\* user objects a caller may pass to createSession
ValidUsers == {User("caller", "u1", "alice", "admin")}

MalformedUsers == {NullUser,
                   User("caller", "undefined", "carol", "admin"),
                   User("caller", "u3", "", "editor")}

ArgUsers == ValidUsers \cup MalformedUsers

\* the object literal sessionData of createSession, and JSON.parse results
SessionData(user, loginTime, expiry, la) ==
    [obj |-> TRUE, user |-> user, loginTime |-> loginTime, expiry |-> expiry,
     lastActivity |-> la]

\* null, where an object is expected
NoData == [obj |-> FALSE, user |-> NullUser, loginTime |-> 0, expiry |-> 0,
           lastActivity |-> 0]

\* stored text: nothing stored (getItem returns null), the empty string,
\* text JSON.parse rejects, or the JSON text of an object
Absent == [kind |-> "absent", data |-> NoData]

EmptyText == [kind |-> "empty", data |-> NoData]

Garbage == [kind |-> "garbage", data |-> NoData]

\* JSON.stringify: the text of an object holds its properties, not its
\* identity; undefined properties are left out (and read back as undefined)
JSONstringify(d) ==
    [kind |-> "json",
     data |-> [d EXCEPT !.user = IF FalsyObj(@) THEN NullUser
                                 ELSE [@ EXCEPT !.ref = "text"]]]

\* JSON.parse of a JSON text: a fresh object
JSONparse(text) ==
    [text.data EXCEPT !.user = IF FalsyObj(@) THEN NullUser
                               ELSE [@ EXCEPT !.ref = "parsed"]]

\* which storage calls throw while a handler runs
NoFail == [get |-> FALSE, set |-> FALSE, remove |-> FALSE]

\* one kind of call throws, or reads and removals both do (no handler
\* writes after a read has thrown)
Fails == {NoFail,
          [get |-> TRUE, set |-> FALSE, remove |-> FALSE],
          [get |-> FALSE, set |-> TRUE, remove |-> FALSE],
          [get |-> FALSE, set |-> FALSE, remove |-> TRUE],
          [get |-> TRUE, set |-> FALSE, remove |-> TRUE]}

----------------------------------------------------------------------------
(* The page *)

Paths == {"/admin-dashboard.html", "/admin-events.html", "/index.html"}

\* the pages of the site: the dashboard holds #loginScreen and
\* #adminDashboard (showLoginForm: "only works on admin-dashboard.html")
Dashboard == [path |-> "/admin-dashboard.html", containers |-> TRUE]

\* a dashboard page without the two containers
BareDashboard == [path |-> "/admin-dashboard.html", containers |-> FALSE]

EventsPage == [path |-> "/admin-events.html", containers |-> FALSE]

IndexPage == [path |-> "/index.html", containers |-> FALSE]

\* a page that is not an admin page and holds the two containers
PublicPage == [path |-> "/index.html", containers |-> TRUE]

Pages == {Dashboard, EventsPage, IndexPage}

\* String.prototype.includes on the modelled paths
PathIncludes(p, s) ==
    CASE s = "/admin" -> p \in {"/admin-dashboard.html", "/admin-events.html"}
      [] s = "admin-dashboard.html" -> p = "/admin-dashboard.html"
      [] OTHER -> FALSE

\* pathname.split('/').pop()
CurrentPage(p) ==
    CASE p = "/admin-dashboard.html" -> "admin-dashboard.html"
      [] p = "/admin-events.html" -> "admin-events.html"
      [] OTHER -> "index.html"

adminPages == {"admin-dashboard.html", "admin-events.html", "admin-news.html",
               "admin-members.html", "admin-photos.html", "admin-users.html",
               "admin-settings.html"}

requiresAuthentication(p) ==
    CurrentPage(p) \in adminPages \/ PathIncludes(p, "/admin")

----------------------------------------------------------------------------
(* The manager's methods, as functions of the state they read and write.   *)
(* w is the record of the fields a method may touch; t is Date.now(); f    *)
(* says which storage calls throw.  w.out is "ok", "throw" (an exception   *)
(* is propagating) or "confirm" (blocked in the confirm() dialog).         *)

World == [cu |-> currentUser, se |-> sessionExpiry, la |-> lastActivity,
          init |-> isInitialized, st |-> storage, view |-> view,
          threw |-> {}, out |-> "ok"]

\* the fields of a manager that holds no session
NoPeer == [cu |-> NullUser, se |-> 0, la |-> 0, init |-> TRUE,
           op |-> "none", ret |-> "undefined"]

\* the two containers as the page's markup leaves them
InitialView == [login |-> "initial", admin |-> "initial"]

\* showLoginForm that does not hide the dashboard
showLoginForm_keepAdmin(w) ==
    IF containers THEN [w EXCEPT !.view.login = "block"] ELSE w

showLoginForm(w) ==
    IF containers THEN [w EXCEPT !.view = [login |-> "block", admin |-> "none"]] ELSE w

showAdminContent(w) ==
    IF containers THEN [w EXCEPT !.view = [login |-> "none", admin |-> "block"]] ELSE w

\* clearSession that leaves the stored record in place
clearSession_keepRecord(w, t, f) ==
    [w EXCEPT !.cu = NullUser, !.se = 0, !.la = t]

\* clearSession that only removes the stored record when there is one,
\* and clears the fields otherwise
clearSession_inTurns(w, t, f) ==
    IF w.st # Absent THEN [w EXCEPT !.st = Absent, !.la = t]
    ELSE [w EXCEPT !.cu = NullUser, !.se = 0, !.la = t]

clearSession(w, t, f) ==
    LET rm == IF f.remove THEN [w EXCEPT !.threw = @ \cup {"removeItem"}]
              ELSE [w EXCEPT !.st = Absent]
    IN  [rm EXCEPT !.cu = NullUser, !.se = 0, !.la = t]

\* [w, val]: val is the parsed object, NoData for null
getStoredSession(w, f) ==
    LET catch(w1) ==
            IF f.remove
            THEN [w |-> [w1 EXCEPT !.threw = @ \cup {"removeItem"}, !.out = "throw"],
                  val |-> NoData]
            ELSE [w |-> [w1 EXCEPT !.st = Absent], val |-> NoData]
    IN  IF f.get THEN catch([w EXCEPT !.threw = @ \cup {"getItem"}])
        ELSE IF w.st.kind \in {"absent", "empty"} THEN [w |-> w, val |-> NoData]
        ELSE IF w.st.kind = "garbage" THEN catch(w)
        ELSE [w |-> w, val |-> JSONparse(w.st)]

\* a parsed object is truthy, null is not
Truthy(d) == d.obj

\* isSessionValid without the check of user.username and user.id
isSessionValid_noIdCheck(d, t) ==
    IF ~Truthy(d) \/ FalsyObj(d.user) \/ FalsyNum(d.expiry) THEN FALSE
    ELSE IF t >= d.expiry THEN FALSE
    ELSE TRUE

isSessionValid(d, t) ==
    IF ~Truthy(d) \/ FalsyObj(d.user) \/ FalsyNum(d.expiry) THEN FALSE
    ELSE IF t >= d.expiry THEN FALSE
    ELSE IF FalsyStr(d.user.username) \/ FalsyStr(d.user.id) THEN FALSE
    ELSE TRUE

\* isAuthenticated that reports an expired session without clearing it
isAuthenticated_keepExpired(w, t, f) ==
    IF FalsyObj(w.cu) \/ FalsyNum(w.se) THEN [w |-> w, r |-> "false"]
    ELSE IF t >= w.se THEN [w |-> w, r |-> "false"]
    ELSE IF t - w.la > ACTIVITY_TIMEOUT
         THEN [w |-> [w EXCEPT !.out = "confirm"], r |-> "confirm"]
    ELSE [w |-> w, r |-> "true"]

\* [w, r]: r is "true", "false", or "confirm" when showInactivityWarning
\* has opened the dialog (the call has not returned yet)
isAuthenticated(w, t, f) ==
    IF FalsyObj(w.cu) \/ FalsyNum(w.se) THEN [w |-> w, r |-> "false"]
    ELSE IF t >= w.se THEN [w |-> clearSession(w, t, f), r |-> "false"]
    ELSE IF t - w.la > ACTIVITY_TIMEOUT
         THEN [w |-> [w EXCEPT !.out = "confirm"], r |-> "confirm"]
    ELSE [w |-> w, r |-> "true"]

\* updateActivity that does not extend the in-memory expiry
updateActivity_noExtend(w, t, f) ==
    LET a == isAuthenticated(w, t, f) IN
    IF a.r # "true" THEN a.w
    ELSE LET w1 == [a.w EXCEPT !.la = t]
             g  == getStoredSession(w1, f)
         IN  IF g.w.out = "throw" THEN g.w
             ELSE IF ~Truthy(g.val) THEN g.w
             ELSE LET sd == [g.val EXCEPT !.lastActivity = t,
                                          !.expiry = t + SESSION_TIMEOUT]
                  IN  IF f.set THEN [g.w EXCEPT !.threw = @ \cup {"setItem"}]
                      ELSE [g.w EXCEPT !.st = JSONstringify(sd)]

\* updateActivity that keeps the expiry SESSION_TIMEOUT after loginTime
updateActivity_absolute(w, t, f) ==
    LET a == isAuthenticated(w, t, f) IN
    IF a.r # "true" THEN a.w
    ELSE LET w1 == [a.w EXCEPT !.la = t]
             g  == getStoredSession(w1, f)
         IN  IF g.w.out = "throw" THEN g.w
             ELSE IF ~Truthy(g.val) THEN g.w
             ELSE LET sd == [g.val EXCEPT !.lastActivity = t,
                                          !.expiry = g.val.loginTime + SESSION_TIMEOUT]
                      w2 == [g.w EXCEPT !.se = sd.expiry]
                  IN  IF f.set THEN [w2 EXCEPT !.threw = @ \cup {"setItem"}]
                      ELSE [w2 EXCEPT !.st = JSONstringify(sd)]

\* updateActivity that ends the session when the stored record is gone
updateActivity_clearOnMissing(w, t, f) ==
    LET a == isAuthenticated(w, t, f) IN
    IF a.r # "true" THEN a.w
    ELSE LET w1 == [a.w EXCEPT !.la = t]
             g  == getStoredSession(w1, f)
         IN  IF g.w.out = "throw" THEN g.w
             ELSE IF ~Truthy(g.val) THEN clearSession(g.w, t, f)
             ELSE LET sd == [g.val EXCEPT !.lastActivity = t,
                                          !.expiry = t + SESSION_TIMEOUT]
                      w2 == [g.w EXCEPT !.se = sd.expiry]
                  IN  IF f.set THEN [w2 EXCEPT !.threw = @ \cup {"setItem"}]
                      ELSE [w2 EXCEPT !.st = JSONstringify(sd)]

\* updateActivity that writes a new record when none is stored
updateActivity_recreate(w, t, f) ==
    LET a == isAuthenticated(w, t, f) IN
    IF a.r # "true" THEN a.w
    ELSE LET w1 == [a.w EXCEPT !.la = t]
             g  == getStoredSession(w1, f)
             sd == IF Truthy(g.val)
                   THEN [g.val EXCEPT !.lastActivity = t,
                                      !.expiry = t + SESSION_TIMEOUT]
                   ELSE SessionData(w1.cu, t, t + SESSION_TIMEOUT, t)
             w2 == [g.w EXCEPT !.se = sd.expiry]
         IN  IF g.w.out = "throw" THEN g.w
             ELSE IF f.set THEN [w2 EXCEPT !.threw = @ \cup {"setItem"}]
             ELSE [w2 EXCEPT !.st = JSONstringify(sd)]

\* updateActivity that refreshes the in-memory fields and does not write the
\* record back
updateActivity_noSave(w, t, f) ==
    LET a == isAuthenticated(w, t, f) IN
    IF a.r # "true" THEN a.w
    ELSE LET w1 == [a.w EXCEPT !.la = t]
             g  == getStoredSession(w1, f)
         IN  IF g.w.out = "throw" THEN g.w
             ELSE IF ~Truthy(g.val) THEN g.w
             ELSE [g.w EXCEPT !.se = t + SESSION_TIMEOUT]

updateActivity(w, t, f) ==
    LET a == isAuthenticated(w, t, f) IN
    IF a.r # "true" THEN a.w
    ELSE LET w1 == [a.w EXCEPT !.la = t]
             g  == getStoredSession(w1, f)
         IN  IF g.w.out = "throw" THEN g.w
             ELSE IF ~Truthy(g.val) THEN g.w
             ELSE LET sd == [g.val EXCEPT !.lastActivity = t,
                                          !.expiry = t + SESSION_TIMEOUT]
                      w2 == [g.w EXCEPT !.se = sd.expiry]
                  IN  IF f.set THEN [w2 EXCEPT !.threw = @ \cup {"setItem"}]
                      ELSE [w2 EXCEPT !.st = JSONstringify(sd)]

\* createSession whose session expires at once
createSession_expiryNow(w, user, t, f) ==
    IF FalsyObj(user) \/ FalsyStr(user.username) \/ FalsyStr(user.id)
    THEN [w |-> w, r |-> "false"]
    ELSE LET sd == SessionData(user, t, t, t)
         IN  IF f.set
             THEN [w |-> [w EXCEPT !.threw = @ \cup {"setItem"}], r |-> "false"]
             ELSE [w |-> [w EXCEPT !.st = JSONstringify(sd), !.cu = user,
                                   !.se = sd.expiry, !.la = sd.lastActivity],
                   r |-> "true"]

\* createSession that only rejects null
createSession_noFieldCheck(w, user, t, f) ==
    IF FalsyObj(user)
    THEN [w |-> w, r |-> "false"]
    ELSE LET sd == SessionData(user, t, t + SESSION_TIMEOUT, t)
         IN  IF f.set
             THEN [w |-> [w EXCEPT !.threw = @ \cup {"setItem"}], r |-> "false"]
             ELSE [w |-> [w EXCEPT !.st = JSONstringify(sd), !.cu = user,
                                   !.se = sd.expiry, !.la = sd.lastActivity],
                   r |-> "true"]

\* [w, r]
createSession(w, user, t, f) ==
    IF FalsyObj(user) \/ FalsyStr(user.username) \/ FalsyStr(user.id)
    THEN [w |-> w, r |-> "false"]
    ELSE LET sd == SessionData(user, t, t + SESSION_TIMEOUT, t)
         IN  IF f.set
             THEN [w |-> [w EXCEPT !.threw = @ \cup {"setItem"}], r |-> "false"]
             ELSE [w |-> [w EXCEPT !.st = JSONstringify(sd), !.cu = user,
                                   !.se = sd.expiry, !.la = sd.lastActivity],
                   r |-> "true"]

\* [w, r]: r is "true", "false", "confirm" or "throw"
initializeSession(w, t, f) ==
    IF w.init THEN isAuthenticated(w, t, f)
    ELSE LET g == getStoredSession(w, f) IN
         IF g.w.out = "throw" THEN [w |-> g.w, r |-> "throw"]
         ELSE IF Truthy(g.val) /\ isSessionValid(g.val, t)
         THEN LET w1 == [g.w EXCEPT !.cu = g.val.user, !.se = g.val.expiry,
                                    !.la = IF FalsyNum(g.val.lastActivity) THEN t
                                           ELSE g.val.lastActivity]
                  w2 == updateActivity(w1, t, f)
              IN  IF w2.out = "confirm" THEN [w |-> w2, r |-> "confirm"]
                  ELSE IF w2.out = "throw" THEN [w |-> w2, r |-> "throw"]
                  ELSE [w |-> [w2 EXCEPT !.init = TRUE], r |-> "true"]
         ELSE [w |-> [clearSession(g.w, t, f) EXCEPT !.init = TRUE], r |-> "false"]

----------------------------------------------------------------------------
(* Steps.  Every step records the operation it ran (lastOp), what it       *)
(* returned (ret), the storage calls that threw (threw), and what it       *)
(* started from: the status of the in-memory session (was) and the kind    *)
(* of the stored text (seen).                                              *)

\* the in-memory session at time t: "none" (no user or no expiry),
\* "expired" (expiry not in the future), "stale" (unexpired, last activity
\* more than ACTIVITY_TIMEOUT ago) or "live"
Status(cu, se, la, t) ==
    CASE cu = NullUser \/ se = 0 -> "none"
      [] OTHER -> IF t >= se THEN "expired"
                  ELSE IF t - la > ACTIVITY_TIMEOUT THEN "stale"
                  ELSE "live"

\* the stored text at time t: "absent", "empty", "garbage" (unparseable),
\* "incomplete" (no user, user.id, user.username or expiry), "expired" or
\* "valid"
Kind(st, t) ==
    CASE st.kind # "json" -> st.kind
      [] OTHER ->
           IF \/ st.data.user.kind = "null"
              \/ st.data.user.id \in {"undefined", ""}
              \/ st.data.user.username \in {"undefined", ""}
              \/ st.data.expiry = 0
           THEN "incomplete"
           ELSE IF t >= st.data.expiry THEN "expired" ELSE "valid"

\* the two records of what a step started from
Before ==
    /\ was' = Status(currentUser, sessionExpiry, lastActivity, now)
    /\ seen' = Kind(storage, now)

\* the fields a finished (or blocked, or failed) method call leaves behind;
\* ans is the answer this step gave to confirm(), np the number of dialogs
\* shown so far if the call is (still) blocked in confirm(), rq the role
\* asked for if the call is hasPermission
Leave(op, a, w, r, ru, ans, np, rq) ==
    /\ required' = rq
    /\ currentUser' = w.cu
    /\ sessionExpiry' = w.se
    /\ lastActivity' = w.la
    /\ isInitialized' = w.init
    /\ storage' = w.st
    /\ view' = w.view
    /\ threw' = w.threw
    /\ lastOp' = op
    /\ arg' = a
    /\ retUser' = ru
    /\ answer' = ans
    /\ pc' = CASE w.out = "confirm" -> "confirm"
               [] w.out = "navigate" -> "navigating"
               [] w.out = "throw" /\ op = "constructor" -> "crashed"
               [] OTHER -> "idle"
    /\ caller' = IF w.out = "confirm" THEN op ELSE "none"
    /\ prompts' = IF w.out = "confirm" THEN np ELSE 0
    /\ ret' = CASE w.out = "confirm" -> "pending"
                [] w.out = "throw" -> "throw"
                [] OTHER -> r

Commit(op, a, w, r, ru) == Leave(op, a, w, r, ru, "none", 1, "none")

\* what a step that is not an activity event leaves alone
Stay ==
    /\ Before
    /\ handlerCalled' = FALSE
    /\ UNCHANGED <<now, ticks, path, containers, activityThrottle, timer,
                   externals, tracked, peer>>
    /\ UNCHANGED loaderVars

\* the clock advances by d, for at most max times
Advance(d, max) ==
    /\ pc \in {"idle", "confirm"}
    /\ ticks < max
    /\ now' = now + d
    /\ ticks' = ticks + 1
    /\ lastOp' = "tick"
    /\ ret' = IF pc = "confirm" THEN "pending" ELSE "undefined"
    /\ arg' = NullUser
    /\ required' = IF pc = "confirm" THEN required ELSE "none"
    /\ retUser' = NullUser
    /\ answer' = "none"
    /\ threw' = {}
    /\ tracked' = IF tracked # 0 /\ now' - tracked < throttleDelay THEN tracked ELSE 0
    /\ Before
    /\ handlerCalled' = FALSE
    /\ UNCHANGED <<storage, currentUser, sessionExpiry, lastActivity, isInitialized,
                   activityThrottle, timer, pc, caller, prompts, path, containers,
                   view, externals, peer>>
    /\ UNCHANGED loaderVars

Tick(d) == Advance(d, MaxTicks)

\* the setTimeout callback of handleActivity
TimerFire ==
    /\ pc = "idle"
    /\ timer # 0
    /\ now >= timer
    /\ activityThrottle' = FALSE
    /\ timer' = 0
    /\ lastOp' = "timer"
    /\ ret' = "undefined"
    /\ arg' = NullUser
    /\ required' = "none"
    /\ retUser' = NullUser
    /\ answer' = "none"
    /\ threw' = {}
    /\ Before
    /\ handlerCalled' = FALSE
    /\ UNCHANGED <<now, ticks, storage, currentUser, sessionExpiry, lastActivity,
                   isInitialized, pc, caller, prompts, path, containers, view,
                   externals, tracked, peer>>
    /\ UNCHANGED loaderVars

CreateSession(user, f) ==
    /\ pc = "idle"
    /\ LET c == createSession(World, user, now, f)
       IN  Commit("createSession", user, c.w, c.r, NullUser)
    /\ Stay

IsAuthenticated(f) ==
    /\ pc = "idle"
    /\ LET a == isAuthenticated(World, now, f)
       IN  Commit("isAuthenticated", NullUser, a.w, a.r, NullUser)
    /\ Stay

\* [w, r, ru]
getCurrentUser(w, t, f) ==
    LET a == isAuthenticated(w, t, f)
    IN  IF a.r = "true" THEN [w |-> a.w, r |-> "object", ru |-> a.w.cu]
        ELSE [w |-> a.w, r |-> "null", ru |-> NullUser]

GetCurrentUser(f) ==
    /\ pc = "idle"
    /\ LET g == getCurrentUser(World, now, f)
       IN  Commit("getCurrentUser", NullUser, g.w, g.r, g.ru)
    /\ Stay

UpdateActivity(f) ==
    /\ pc = "idle"
    /\ Commit("updateActivity", NullUser, updateActivity(World, now, f),
              "undefined", NullUser)
    /\ Stay

ClearSession(f) ==
    /\ pc = "idle"
    /\ Commit("clearSession", NullUser, clearSession(World, now, f),
              "undefined", NullUser)
    /\ Stay

logout(w, redirect, t, f) ==
    LET c == clearSession(w, t, f)
    IN  IF redirect /\ ~PathIncludes(path, "admin-dashboard.html")
        THEN [c EXCEPT !.out = "navigate"]
        ELSE showLoginForm(c)

Logout(redirect, f) ==
    /\ pc = "idle"
    /\ Commit("logout", NullUser, logout(World, redirect, now, f),
              "undefined", NullUser)
    /\ Stay

Roles == {"admin", "editor"}

\* hasPermission without the clause for the role 'admin'
hasPermission_exactRole(w, requiredRole, t, f) ==
    LET a == isAuthenticated(w, t, f)
    IN  IF a.r # "true" THEN a
        ELSE [w |-> a.w,
              r |-> IF a.w.cu.role = requiredRole THEN "true" ELSE "false"]

\* [w, r]
hasPermission(w, requiredRole, t, f) ==
    LET a == isAuthenticated(w, t, f)
    IN  IF a.r # "true" THEN a
        ELSE [w |-> a.w,
              r |-> IF a.w.cu.role = requiredRole \/ a.w.cu.role = "admin"
                    THEN "true" ELSE "false"]

HasPermission(role, f) ==
    /\ pc = "idle"
    /\ LET h == hasPermission(World, role, now, f)
       IN  Leave("hasPermission", NullUser, h.w, h.r, NullUser, "none", 1, role)
    /\ Stay

\* protectPage without the requiresAuthentication test
protectPage_everywhere(w, t, f) ==
    LET a == isAuthenticated(w, t, f)
    IN  IF a.r = "confirm" THEN a
        ELSE IF a.r = "true" THEN [w |-> showAdminContent(a.w), r |-> "true"]
        ELSE [w |-> showLoginForm(a.w), r |-> "false"]

\* [w, r]
protectPage(w, t, f) ==
    IF ~requiresAuthentication(path) THEN [w |-> w, r |-> "true"]
    ELSE LET a == isAuthenticated(w, t, f)
         IN  IF a.r = "confirm" THEN a
             ELSE IF a.r = "true" THEN [w |-> showAdminContent(a.w), r |-> "true"]
             ELSE [w |-> showLoginForm(a.w), r |-> "false"]

ProtectPage(f) ==
    /\ pc = "idle"
    /\ LET p == protectPage(World, now, f)
       IN  Commit("protectPage", NullUser, p.w, p.r, NullUser)
    /\ Stay

refreshSession(w, t, f) == initializeSession([w EXCEPT !.init = FALSE], t, f)

RefreshSession(f) ==
    /\ pc = "idle"
    /\ LET i == refreshSession(World, now, f)
       IN  Commit("refreshSession", NullUser, i.w, i.r, NullUser)
    /\ Stay

\* handleActivity that never arms the throttle
handleActivity_noThrottle(w, thr, tm, t, f) ==
    LET a == isAuthenticated(w, t, f)
    IN  IF a.r = "true" /\ ~thr
        THEN [w |-> updateActivity(a.w, t, f), called |-> TRUE, thr |-> thr, tm |-> tm]
        ELSE [w |-> a.w, called |-> FALSE, thr |-> thr, tm |-> tm]

\* the listener of click, keypress, mousemove, scroll, touchstart, and of
\* visibilitychange when the page becomes visible; thr and tm are the
\* closure's activityThrottle and the pending timer.
\* [w, called, thr, tm]: called says whether updateActivity was called
handleActivity(w, thr, tm, t, f) ==
    LET a == isAuthenticated(w, t, f)
    IN  IF a.r = "true" /\ ~thr
        THEN LET u == updateActivity(a.w, t, f)
             IN  IF u.out = "throw"
                 THEN [w |-> u, called |-> TRUE, thr |-> thr, tm |-> tm]
                 ELSE [w |-> u, called |-> TRUE, thr |-> TRUE, tm |-> t + throttleDelay]
        ELSE [w |-> a.w, called |-> FALSE, thr |-> thr, tm |-> tm]

HandleActivity(f) ==
    /\ pc = "idle"
    /\ LET h == handleActivity(World, activityThrottle, timer, now, f)
       IN  /\ Commit("handleActivity", NullUser, h.w, "undefined", NullUser)
           /\ activityThrottle' = h.thr
           /\ timer' = h.tm
           /\ handlerCalled' = h.called
           /\ tracked' = IF h.called THEN now ELSE tracked
    /\ Before
    /\ UNCHANGED <<now, ticks, path, containers, externals, peer>>
    /\ UNCHANGED loaderVars

showInactivityWarning(w, shouldExtend, t, f) ==
    IF shouldExtend THEN updateActivity([w EXCEPT !.out = "ok"], t, f)
    ELSE logout([w EXCEPT !.out = "ok"], FALSE, t, f)

\* The rest of the operation op once the isAuthenticated() call that opened
\* the dialog has returned false (line 129), every nested call included.
\* [w, r, ru]
Resume(op, w) ==
    CASE op \in {"constructor", "refreshSession"}
           -> [w |-> [w EXCEPT !.init = TRUE], r |-> "true", ru |-> NullUser]
      [] op = "protectPage"
           -> [w |-> showLoginForm(w), r |-> "false", ru |-> NullUser]
      [] op = "getCurrentUser"
           -> [w |-> w, r |-> "null", ru |-> NullUser]
      [] op \in {"updateActivity", "handleActivity"}
           -> [w |-> w, r |-> "undefined", ru |-> NullUser]
      [] OTHER -> [w |-> w, r |-> "false", ru |-> NullUser]

\* the user answers the confirm() dialog
Answer(shouldExtend, f) ==
    /\ pc = "confirm"
    /\ LET s   == showInactivityWarning(World, shouldExtend, now, f)
           ans == IF shouldExtend THEN "ok" ELSE "cancel"
       IN  IF s.out \in {"confirm", "throw"}
           THEN /\ s.out = "confirm" => prompts < MaxPrompts
                /\ Leave(caller, arg, s, "pending", NullUser, ans, prompts + 1, required)
           ELSE LET fin == Resume(caller, s)
                IN  Leave(caller, arg, fin.w, fin.r, fin.ru, ans, 0, required)
    /\ Stay

ConfirmOK(f) == Answer(TRUE, f)

ConfirmCancel(f) == Answer(FALSE, f)

\* texts that a previous page, another tab or a script may leave under the
\* storage key; the timestamps in them are relative to t.  The last one is
\* the record of a session created SESSION_TIMEOUT before t and last
\* renewed just before t.
Bob == User("other", "u2", "bob", "undefined")

Ed == User("other", "u4", "ed", "editor")

ExternalTexts(t) ==
    {Absent, EmptyText, Garbage} \cup
    {JSONstringify(d) : d \in
        {SessionData(NullUser, t, t + SESSION_TIMEOUT, t),
         SessionData(User("other", "undefined", "bob", "admin"), t, t + SESSION_TIMEOUT, t),
         SessionData(User("other", "u2", "undefined", "admin"), t, t + SESSION_TIMEOUT, t),
         SessionData(Bob, t, 0, t),
         SessionData(Bob, t - SESSION_TIMEOUT, t, t - 1),
         SessionData(Bob, t, t + SESSION_TIMEOUT, t),
         SessionData(Bob, t - ACTIVITY_TIMEOUT, t + 1, 0),
         SessionData(Bob, t - ACTIVITY_TIMEOUT, t + SESSION_TIMEOUT - ACTIVITY_TIMEOUT,
                     t - ACTIVITY_TIMEOUT),
         SessionData(Bob, t - ACTIVITY_TIMEOUT - 1, t + SESSION_TIMEOUT,
                     t - ACTIVITY_TIMEOUT - 1),
         SessionData(Ed, t - SESSION_TIMEOUT, t - 1 + SESSION_TIMEOUT, t - 1)}}

\* texts another tab or a script writes while this page is open: removal,
\* unparseable text, and records with a missing user.id, expired, fresh,
\* and last active more than ACTIVITY_TIMEOUT before t
TabTexts(t) ==
    {Absent, Garbage} \cup
    {JSONstringify(d) : d \in
        {SessionData(User("other", "undefined", "bob", "admin"), t, t + SESSION_TIMEOUT, t),
         SessionData(Bob, t - SESSION_TIMEOUT, t, t - 1),
         SessionData(Bob, t, t + SESSION_TIMEOUT, t),
         SessionData(Bob, t - ACTIVITY_TIMEOUT - 1, t + SESSION_TIMEOUT,
                     t - ACTIVITY_TIMEOUT - 1)}}

ExternalWrite(text) ==
    /\ pc = "idle"
    /\ externals < MaxExternal
    /\ externals' = externals + 1
    /\ storage' = text
    /\ lastOp' = "external"
    /\ ret' = "undefined"
    /\ arg' = NullUser
    /\ required' = "none"
    /\ retUser' = NullUser
    /\ answer' = "none"
    /\ threw' = {}
    /\ Before
    /\ handlerCalled' = FALSE
    /\ UNCHANGED <<now, ticks, currentUser, sessionExpiry, lastActivity,
                   isInitialized, activityThrottle, timer, pc, caller, prompts,
                   path, containers, view, tracked, peer>>
    /\ UNCHANGED loaderVars

\* new AdminSessionManager() on a freshly loaded page: [w, r]
constructor(st, t, f) ==
    initializeSession([cu |-> NullUser, se |-> 0, la |-> t, init |-> FALSE,
                       st |-> st, view |-> InitialView, threw |-> {}, out |-> "ok"],
                      t, f)

\* the page p is loaded (by the user, or by the navigation logout started)
PageLoad(pg, f) ==
    /\ pc \in {"idle", "navigating", "crashed"}
    /\ pc = "navigating" => pg.path = "/admin-dashboard.html"
    /\ path' = pg.path
    /\ containers' = pg.containers
    /\ LET i == constructor(storage, now, f)
       IN  Commit("constructor", NullUser, i.w, i.r, NullUser)
    /\ activityThrottle' = FALSE
    /\ timer' = 0
    /\ handlerCalled' = FALSE
    /\ tracked' = 0
    /\ was' = "none"
    /\ seen' = Kind(storage, now)
    /\ UNCHANGED <<now, ticks, externals, peer>>
    /\ UNCHANGED loaderVars

----------------------------------------------------------------------------
(* A second tab of the same origin: its own manager, the same storage key. *)
(* peer holds that manager's fields, the last call made on it (op) and     *)
(* what the call returned (ret).  The two tabs' calls interleave; a call   *)
(* of one tab may run while the other is blocked in its confirm() dialog.  *)
(* The second tab's own dialog is not modelled: a call that would open it  *)
(* is not taken.                                                           *)

PeerWorld == [cu |-> peer.cu, se |-> peer.se, la |-> peer.la, init |-> peer.init,
              st |-> storage, view |-> InitialView, threw |-> {}, out |-> "ok"]

\* the call op on the second tab's manager leaves w and returns r
PeerStep(op, w, r) ==
    /\ pc \in {"idle", "confirm"}
    /\ w.out = "ok"
    /\ peer' = [cu |-> w.cu, se |-> w.se, la |-> w.la, init |-> w.init,
                op |-> op, ret |-> r]
    /\ storage' = w.st
    /\ lastOp' = "peer"
    /\ ret' = IF pc = "confirm" THEN "pending" ELSE "undefined"
    /\ arg' = NullUser
    /\ required' = IF pc = "confirm" THEN required ELSE "none"
    /\ retUser' = NullUser
    /\ answer' = "none"
    /\ threw' = {}
    /\ Before
    /\ handlerCalled' = FALSE
    /\ UNCHANGED <<now, ticks, currentUser, sessionExpiry, lastActivity, isInitialized,
                   activityThrottle, timer, pc, caller, prompts, path, containers,
                   view, externals, tracked>>
    /\ UNCHANGED loaderVars

PeerCreateSession(user) ==
    LET c == createSession(PeerWorld, user, now, NoFail)
    IN  PeerStep("createSession", c.w, c.r)

PeerIsAuthenticated ==
    LET a == isAuthenticated(PeerWorld, now, NoFail)
    IN  PeerStep("isAuthenticated", a.w, a.r)

\* updateActivity() called directly, or by an activity event of the second
\* tab while its throttle is off (an event while it is on is
\* PeerIsAuthenticated)
PeerUpdateActivity ==
    PeerStep("updateActivity", updateActivity(PeerWorld, now, NoFail), "undefined")

PeerLogout ==
    PeerStep("logout", logout(PeerWorld, FALSE, now, NoFail), "undefined")

PeerRefreshSession ==
    LET i == refreshSession(PeerWorld, now, NoFail)
    IN  PeerStep("refreshSession", i.w, i.r)

----------------------------------------------------------------------------
(* The component loader.  loadHTMLComponent is an async function: it runs  *)
(* up to its first await when called, and goes on when the fetch, then the *)
(* reading of the response's text, settle.                                 *)

\* the component names loadAllComponents passes; COMPONENT_CONFIG gives each
\* its path and its container id
Components == {"header", "footer"}

Protocols == {"https:", "file:"}

\* the HTTP statuses a fetch may resolve with
Statuses == {200, 404, 500}

\* the texts a response may hold
Bodies == {"<div>H</div>", "<p>F</p>"}

\* response.ok
Ok(status) == status >= 200 /\ status <= 299

\* new Error(`HTTP ${response.status}: ${response.statusText}`).message
HttpError(status) ==
    CASE status = 404 -> "HTTP 404: Not Found"
      [] status = 500 -> "HTTP 500: Internal Server Error"
      [] OTHER -> "HTTP"

\* what a container holds: the page's own markup, the loading indicator,
\* the fallback of the catch block, or a fetched text
Markup == [kind |-> "markup", name |-> "", text |-> ""]

LoadingBox(name) == [kind |-> "loading", name |-> name, text |-> ""]

ErrorBox(name, message) == [kind |-> "error", name |-> name, text |-> message]

Fetched(text) == [kind |-> "fetched", name |-> "", text |-> text]

\* a fetch: not issued, in flight, rejected (network failure), resolved
\* with a response whose text is not read yet ("headers"), read
\* ("complete"), or whose reading failed ("broken")
Fetch(state, status, text) == [state |-> state, status |-> status, text |-> text]

NoFetch == Fetch("none", 0, "")

\* checkProtocol that accepts every scheme
checkProtocol_any(p) == TRUE

checkProtocol(p) == p # "file:"

\* loadHTMLComponent up to its first await, for the component name whose
\* container exists or not (has) and holds html
loadHTMLComponent_fetchAnyway(name, has, html) ==
    IF ~has THEN [html |-> html, response |-> Fetch("pending", 0, ""), loaded |-> "pending"]
    ELSE [html |-> LoadingBox(name), response |-> Fetch("pending", 0, ""),
          loaded |-> "pending"]

loadHTMLComponent(name, has, html) ==
    IF ~has THEN [html |-> html, response |-> NoFetch, loaded |-> "false"]
    ELSE [html |-> LoadingBox(name), response |-> Fetch("pending", 0, ""),
          loaded |-> "pending"]

\* the catch block of loadHTMLComponent with a fallback that names no
\* component
catch_anonymous(name, has, html, message) ==
    IF has THEN ErrorBox("", message) ELSE html

\* the catch block of loadHTMLComponent: the container's new content
catch(name, has, html, message) ==
    IF has THEN ErrorBox(name, message) ELSE html

\* Promise.all that goes on when one of the promises is fulfilled
PromiseAll_any(ps) == \E c \in DOMAIN ps : ps[c] \in {"true", "false"}

\* Promise.all of promises that are never rejected: fulfilled when all are
PromiseAll(ps) == \A c \in DOMAIN ps : ps[c] \in {"true", "false"}

\* the loader's DOMContentLoaded handler, loadAllComponents up to its await
DOMContentLoaded ==
    /\ entry = "ready"
    /\ IF ~checkProtocol(protocol)
       THEN /\ notice' = "shown"
            /\ entry' = "aborted"
            /\ UNCHANGED <<innerHTML, response, loaded, inits>>
       ELSE LET l == [c \in Components |->
                         loadHTMLComponent(c, present[c], innerHTML[c])]
            IN  /\ innerHTML' = [c \in Components |-> l[c].html]
                /\ response' = [c \in Components |-> l[c].response]
                /\ loaded' = [c \in Components |-> l[c].loaded]
                /\ entry' = "waiting"
                /\ UNCHANGED <<inits, notice>>
    /\ UNCHANGED <<protocol, present>>
    /\ UNCHANGED managerVars

\* the fetch of component c resolves with a response of this status
FetchResolves(c, status) ==
    /\ response[c].state = "pending"
    /\ response' = [response EXCEPT ![c] = Fetch("headers", status, "")]
    /\ IF Ok(status)
       THEN UNCHANGED <<innerHTML, loaded>>
       ELSE /\ innerHTML' = [innerHTML EXCEPT
                               ![c] = catch(c, present[c], @, HttpError(status))]
            /\ loaded' = [loaded EXCEPT ![c] = "false"]
    /\ UNCHANGED <<protocol, present, entry, inits, notice>>
    /\ UNCHANGED managerVars

\* the fetch of component c is rejected (network failure)
FetchRejects(c) ==
    /\ response[c].state = "pending"
    /\ response' = [response EXCEPT ![c] = Fetch("rejected", 0, "")]
    /\ innerHTML' = [innerHTML EXCEPT
                       ![c] = catch(c, present[c], @, "Failed to fetch")]
    /\ loaded' = [loaded EXCEPT ![c] = "false"]
    /\ UNCHANGED <<protocol, present, entry, inits, notice>>
    /\ UNCHANGED managerVars

\* response.text() of component c resolves
TextResolves(c, text) ==
    /\ response[c].state = "headers"
    /\ loaded[c] = "pending"
    /\ response' = [response EXCEPT ![c] = Fetch("complete", @.status, text)]
    /\ innerHTML' = [innerHTML EXCEPT ![c] = Fetched(text)]
    /\ loaded' = [loaded EXCEPT ![c] = "true"]
    /\ UNCHANGED <<protocol, present, entry, inits, notice>>
    /\ UNCHANGED managerVars

\* response.text() of component c is rejected (the connection breaks)
TextRejects(c) ==
    /\ response[c].state = "headers"
    /\ loaded[c] = "pending"
    /\ response' = [response EXCEPT ![c] = Fetch("broken", @.status, "")]
    /\ innerHTML' = [innerHTML EXCEPT
                       ![c] = catch(c, present[c], @, "Failed to fetch")]
    /\ loaded' = [loaded EXCEPT ![c] = "false"]
    /\ UNCHANGED <<protocol, present, entry, inits, notice>>
    /\ UNCHANGED managerVars

\* loadAllComponents after its await: initializeComponentFeatures
LoadAllResumes ==
    /\ entry = "waiting"
    /\ PromiseAll(loaded)
    /\ inits' = inits + 1
    /\ entry' = "done"
    /\ UNCHANGED <<protocol, present, innerHTML, response, loaded, notice>>
    /\ UNCHANGED managerVars

\* the setTimeout callback of handleComponentError
NoticeExpires ==
    /\ notice = "shown"
    /\ notice' = "removed"
    /\ UNCHANGED <<protocol, present, innerHTML, response, loaded, entry, inits>>
    /\ UNCHANGED managerVars

\* a page before the loader's DOMContentLoaded handler has run
LoaderStart(pr, has) ==
    /\ protocol = pr
    /\ present = has
    /\ innerHTML = [c \in Components |-> Markup]
    /\ response = [c \in Components |-> NoFetch]
    /\ loaded = [c \in Components |-> "none"]
    /\ entry = "ready"
    /\ inits = 0
    /\ notice = "none"

----------------------------------------------------------------------------
(* Specifications.  F is the set of storage-failure patterns the           *)
(* environment may produce, PG the pages the user opens, D the dashboard   *)
(* page that logout(true) navigates to, X the texts others write, T the    *)
(* texts the first page may find stored.                                   *)

ManagerStart(F, PG, T) ==
    \E st \in T, pg \in PG, f \in F :
        LET i == constructor(st, StartTime, f) IN
        /\ now = StartTime
        /\ ticks = 0
        /\ storage = i.w.st
        /\ currentUser = i.w.cu
        /\ sessionExpiry = i.w.se
        /\ lastActivity = i.w.la
        /\ isInitialized = i.w.init
        /\ activityThrottle = FALSE
        /\ timer = 0
        /\ pc = CASE i.w.out = "confirm" -> "confirm"
                  [] i.w.out = "throw" -> "crashed"
                  [] OTHER -> "idle"
        /\ caller = IF i.w.out = "confirm" THEN "constructor" ELSE "none"
        /\ prompts = IF i.w.out = "confirm" THEN 1 ELSE 0
        /\ path = pg.path
        /\ containers = pg.containers
        /\ view = InitialView
        /\ required = "none"
        /\ lastOp = "constructor"
        /\ arg = NullUser
        /\ ret = CASE i.w.out = "confirm" -> "pending"
                   [] i.w.out = "throw" -> "throw"
                   [] OTHER -> i.r
        /\ retUser = NullUser
        /\ answer = "none"
        /\ threw = i.w.threw
        /\ was = "none"
        /\ seen = Kind(st, StartTime)
        /\ externals = 0
        /\ handlerCalled = FALSE
        /\ tracked = 0
        /\ peer = NoPeer

\* the manager on a page whose loader has not run
InitWith(F, PG, T) ==
    /\ ManagerStart(F, PG, T)
    /\ LoaderStart("https:", [c \in Components |-> TRUE])

\* the clock, the timer and the calls made on this page's manager
Operations(F, PG, D) ==
    \/ \E d \in Jumps : Tick(d)
    \/ TimerFire
    \/ \E f \in F :
          \/ \E user \in ArgUsers : CreateSession(user, f)
          \/ IsAuthenticated(f)
          \/ GetCurrentUser(f)
          \/ UpdateActivity(f)
          \/ ClearSession(f)
          \/ \E redirect \in BOOLEAN : Logout(redirect, f)
          \/ \E role \in Roles : HasPermission(role, f)
          \/ ProtectPage(f)
          \/ RefreshSession(f)
          \/ HandleActivity(f)
          \/ ConfirmOK(f)
          \/ ConfirmCancel(f)
          \/ \E pg \in PG \cup {D} :
                /\ pc # "navigating" => pg \in PG
                /\ PageLoad(pg, f)

NextWith(F, PG, D, X) ==
    \/ Operations(F, PG, D)
    \/ \E text \in X : ExternalWrite(text)

\* storage calls succeed; pages without the login and admin containers
Init == InitWith({NoFail}, {EventsPage}, ExternalTexts(StartTime))

Next == NextWith({NoFail}, {EventsPage}, BareDashboard, TabTexts(StartTime))

Spec == Init /\ [][Next]_vars

\* any storage call may throw; the first page finds nothing, unparseable
\* text or a fresh record; others remove the record or leave unparseable
\* text
InitFaulty ==
    InitWith(Fails, {EventsPage},
             {Absent, Garbage,
              JSONstringify(SessionData(Bob, StartTime, StartTime + SESSION_TIMEOUT,
                                        StartTime))})

NextFaulty == NextWith(Fails, {EventsPage}, BareDashboard, {Absent, Garbage})

SpecFaulty == InitFaulty /\ [][NextFaulty]_vars

\* storage calls succeed; the user opens the dashboard and a page that is
\* not an admin page, both with the two containers; the first page finds
\* nothing, a fresh record or a record last active more than
\* ACTIVITY_TIMEOUT ago; others remove the record
PageTexts ==
    {Absent} \cup
    {JSONstringify(d) : d \in
        {SessionData(Bob, StartTime, StartTime + SESSION_TIMEOUT, StartTime),
         SessionData(Bob, StartTime - ACTIVITY_TIMEOUT - 1, StartTime + SESSION_TIMEOUT,
                     StartTime - ACTIVITY_TIMEOUT - 1)}}

InitPages == InitWith({NoFail}, {Dashboard, PublicPage}, PageTexts)

NextPages == NextWith({NoFail}, {Dashboard, PublicPage}, Dashboard, {Absent})

SpecPages == InitPages /\ [][NextPages]_vars

\* storage calls succeed and this page's manager is the only writer of the
\* storage key; the first page finds what the manager of an earlier page
\* may have left: nothing, or a record that is fresh, last active more than
\* ACTIVITY_TIMEOUT ago, or expired
SoloTexts ==
    {Absent} \cup
    {JSONstringify(d) : d \in
        {SessionData(Bob, StartTime, StartTime + SESSION_TIMEOUT, StartTime),
         SessionData(Bob, StartTime - ACTIVITY_TIMEOUT - 1,
                     StartTime - ACTIVITY_TIMEOUT - 1 + SESSION_TIMEOUT,
                     StartTime - ACTIVITY_TIMEOUT - 1),
         SessionData(Bob, StartTime - SESSION_TIMEOUT, StartTime,
                     StartTime - SESSION_TIMEOUT)}}

InitSolo == InitWith({NoFail}, {EventsPage}, SoloTexts)

NextSolo == Operations({NoFail}, {EventsPage}, BareDashboard)

SpecSolo == InitSolo /\ [][NextSolo]_vars

\* two tabs: storage calls succeed, nothing is stored when the first page
\* loads, and the only writers of the storage key are the two managers.
\* On this tab: the clock, the timer, activity events, the dialog, and the
\* calls that read or write the session
InitTabs == InitWith({NoFail}, {EventsPage}, {Absent})

NextTabs ==
    \/ \E d \in Jumps : Tick(d)
    \/ TimerFire
    \/ \E user \in ValidUsers : CreateSession(user, NoFail)
    \/ IsAuthenticated(NoFail)
    \/ UpdateActivity(NoFail)
    \/ Logout(FALSE, NoFail)
    \/ RefreshSession(NoFail)
    \/ HandleActivity(NoFail)
    \/ ConfirmOK(NoFail)
    \/ ConfirmCancel(NoFail)
    \/ \E user \in ValidUsers : PeerCreateSession(user)
    \/ PeerIsAuthenticated
    \/ PeerUpdateActivity
    \/ PeerLogout
    \/ PeerRefreshSession

SpecTabs == InitTabs /\ [][NextTabs]_vars

\* a user who logs in and keeps interacting: storage calls succeed, nothing
\* is stored when the page loads, this page's manager is the only writer,
\* and the clock advances, by less than ACTIVITY_TIMEOUT, only from an
\* instant at which createSession has returned true or an activity event
\* has occurred, so that every activity event comes less than
\* ACTIVITY_TIMEOUT after the one before it (or after the login); a timer
\* that is overdue fires before the next event is handled
InitThrottle == InitWith({NoFail}, {EventsPage}, {Absent})

NextThrottle ==
    \/ \E d \in Gaps :
          /\ \/ lastOp = "createSession" /\ ret = "true"
             \/ lastOp = "handleActivity"
          /\ Advance(d, MaxGaps)
    \/ TimerFire
    \/ \E user \in ValidUsers : CreateSession(user, NoFail)
    \/ /\ timer = 0 \/ now <= timer
       /\ HandleActivity(NoFail)
    \/ ConfirmOK(NoFail)
    \/ ConfirmCancel(NoFail)

SpecThrottle == InitThrottle /\ [][NextThrottle]_vars

\* the loader on a page (any scheme, any of the two containers missing)
\* whose manager found nothing stored
InitLoader ==
    /\ ManagerStart({NoFail}, {IndexPage}, {Absent})
    /\ \E pr \in Protocols, has \in [Components -> BOOLEAN] : LoaderStart(pr, has)

NextLoader ==
    \/ DOMContentLoaded
    \/ \E c \in Components :
          \/ \E status \in Statuses : FetchResolves(c, status)
          \/ FetchRejects(c)
          \/ \E text \in Bodies : TextResolves(c, text)
          \/ TextRejects(c)
    \/ LoadAllResumes
    \/ NoticeExpires

SpecLoader == InitLoader /\ [][NextLoader]_vars

----------------------------------------------------------------------------
(* Properties.  Those checked under Spec suppose that the storage calls    *)
(* succeed; what happens when they throw is the subject of C10, checked    *)
(* under SpecFaulty.                                                       *)

\* a user object createSession must reject: null, or without a non-empty
\* id or username
Malformed(u) ==
    u = NullUser \/ u.id \in {"undefined", ""} \/ u.username \in {"undefined", ""}

\* the manager holds a user
Authenticated == currentUser # NullUser

\* C1: after createSession(u) with a well-formed u, createSession has
\* returned true, an isAuthenticated() call made next returns true and a
\* getCurrentUser() call made next returns u itself.
C1_CreateThenAuthenticated ==
    lastOp = "createSession" /\ ~Malformed(arg) =>
        /\ ret = "true"
        /\ isAuthenticated(World, now, NoFail).r = "true"
        /\ getCurrentUser(World, now, NoFail).r = "object"
        /\ getCurrentUser(World, now, NoFail).ru = arg

\* a session has just been created, replacing one that was live
C1_Witness ==
    /\ lastOp = "createSession"
    /\ ~Malformed(arg)
    /\ ret = "true"
    /\ currentUser = arg
    /\ was = "live"
    /\ ticks > 0

\* C2: an isAuthenticated() call that starts with a session whose expiry is
\* not in the future returns false and leaves no stored record, no in-memory
\* user and no in-memory expiry.
C2_ExpiredIsCleared ==
    lastOp = "isAuthenticated" /\ was = "expired" =>
        /\ ret = "false"
        /\ storage = Absent
        /\ currentUser = NullUser
        /\ sessionExpiry = 0

\* isAuthenticated() has found a session expired whose record was stored
C2_Witness ==
    /\ lastOp = "isAuthenticated"
    /\ answer = "none"
    /\ was = "expired"
    /\ seen = "expired"
    /\ ret = "false"
    /\ storage = Absent

\* C3 (as stated): when isAuthenticated() has opened the inactivity dialog,
\* the call completes and returns false as soon as the dialog is answered,
\* whatever the answer.
C3_Claim ==
    [][pc = "confirm" /\ caller = "isAuthenticated" /\ answer' # "none"
          => pc' = "idle" /\ ret' = "false"]_vars

\* C4: a constructor or refreshSession that finds stored text that is
\* unparseable, structurally incomplete or expired leaves no in-memory user
\* and no stored text, and an isAuthenticated() call made next returns false.
C4_InvalidRecordIsAbsent ==
    /\ lastOp \in {"constructor", "refreshSession"}
    /\ answer = "none"
    /\ seen \in {"garbage", "incomplete", "expired"}
    => /\ currentUser = NullUser
       /\ sessionExpiry = 0
       /\ storage = Absent
       /\ pc = "idle"
       /\ isAuthenticated(World, now, NoFail).r = "false"

\* refreshSession has found an incomplete record while a session was live
C4_Witness ==
    /\ lastOp = "refreshSession"
    /\ seen = "incomplete"
    /\ was = "live"
    /\ currentUser = NullUser
    /\ storage = Absent

\* C5: createSession with a malformed user returns false and changes
\* neither the in-memory session fields nor the stored text.
C5_MalformedIsNoOp ==
    [][lastOp' = "createSession" /\ Malformed(arg')
          => /\ ret' = "false"
             /\ UNCHANGED <<currentUser, sessionExpiry, lastActivity, storage>>]_vars

\* a malformed user has been rejected while a session was live
C5_Witness ==
    /\ lastOp = "createSession"
    /\ Malformed(arg)
    /\ arg # NullUser
    /\ ret = "false"
    /\ was = "live"
    /\ currentUser # NullUser
    /\ storage.kind = "json"

\* C6: after clearSession() or logout() there is no stored record, no
\* in-memory user and no in-memory expiry, and an isAuthenticated() call
\* made next returns false.
C6_ClearedIsUnauthenticated ==
    lastOp \in {"clearSession", "logout"} =>
        /\ storage = Absent
        /\ currentUser = NullUser
        /\ sessionExpiry = 0
        /\ isAuthenticated(World, now, NoFail).r = "false"

\* logout has ended a live session whose record was stored
C6_Witness ==
    /\ lastOp = "logout"
    /\ was = "live"
    /\ seen = "valid"
    /\ storage = Absent
    /\ currentUser = NullUser

\* the step that just ended was a createSession returning true, or an
\* initialization that found a valid record
Establishes ==
    \/ lastOp = "createSession" /\ ret = "true"
    \/ lastOp \in {"constructor", "refreshSession"} /\ seen = "valid"

\* the step that just ended detected expiry (of the in-memory session, or
\* of the stored record it re-read), or answered the inactivity dialog, or
\* was an explicit clearSession or logout
Ends ==
    \/ was = "expired"
    \/ lastOp = "refreshSession" /\ seen = "expired"
    \/ answer # "none"
    \/ lastOp \in {"clearSession", "logout"}

\* C7 (as stated): a step makes an unauthenticated manager authenticated
\* only if it is a createSession returning true or an initialization
\* restoring a valid record; a step makes an authenticated manager
\* unauthenticated only if it is an expiry detection, an inactivity
\* detection or an explicit clearSession or logout.
C7_Claim ==
    /\ was = "none" /\ Authenticated => Establishes
    /\ was # "none" /\ ~Authenticated => Ends

\* C7 (amended): as stated, except that a refreshSession that finds the
\* stored record absent, unparseable or incomplete also makes an
\* authenticated manager unauthenticated.
C7_Transitions ==
    /\ was = "none" /\ Authenticated => Establishes
    /\ was # "none" /\ ~Authenticated =>
           \/ Ends
           \/ /\ lastOp = "refreshSession"
              /\ ret = "false"
              /\ seen \in {"absent", "empty", "garbage", "incomplete"}

\* refreshSession has ended a live session because the record was gone
C7_Witness ==
    /\ lastOp = "refreshSession"
    /\ was = "live"
    /\ seen = "absent"
    /\ ret = "false"
    /\ ~Authenticated

\* C8: updateActivity() changes neither the in-memory session fields nor
\* the stored text when there is no in-memory user; when the session is live
\* and a record is stored, it sets lastActivity to now and sessionExpiry to
\* now + SESSION_TIMEOUT, and the stored record holds the same two values.
C8_UpdateActivityEffect ==
    [][lastOp' = "updateActivity" /\ answer' = "none"
          => /\ currentUser = NullUser
                => UNCHANGED <<currentUser, sessionExpiry, lastActivity, storage>>
             /\ /\ Status(currentUser, sessionExpiry, lastActivity, now) = "live"
                /\ storage.kind = "json"
                => /\ lastActivity' = now
                   /\ sessionExpiry' = now + SESSION_TIMEOUT
                   /\ storage'.kind = "json"
                   /\ storage'.data.lastActivity = lastActivity'
                   /\ storage'.data.expiry = sessionExpiry']_vars

\* updateActivity() has renewed a live session some time after its start
C8_Witness ==
    /\ lastOp = "updateActivity"
    /\ was = "live"
    /\ seen = "valid"
    /\ ticks > 0
    /\ lastActivity = now
    /\ sessionExpiry = now + SESSION_TIMEOUT
    /\ storage.kind = "json"
    /\ storage.data.lastActivity = now

\* C9: the activity handler of a page calls updateActivity() only if its
\* previous call was at least throttleDelay earlier.
C9_HandlerCallsApart ==
    [][handlerCalled' => tracked = 0]_vars

\* an event of an authenticated user was not passed on to updateActivity()
\* because the handler's last call was less than throttleDelay earlier
C9_Witness ==
    /\ lastOp = "handleActivity"
    /\ ~handlerCalled
    /\ was = "live"
    /\ activityThrottle
    /\ tracked # 0
    /\ now > tracked
    /\ now - tracked < throttleDelay

\* C10 (as stated): no exception of a storage call propagates out of an
\* operation of the manager.
C10_Claim == ret # "throw"

\* C11: on an admin page that holds both containers, protectPage() returns
\* what isAuthenticated() returned (true exactly when the session was live
\* and no dialog was shown; the manager is authenticated afterwards exactly
\* when it returned true), and when it has returned only the admin
\* container is visible if it returned true, only the login container if it
\* returned false.
C11_GuardShowsOneContainer ==
    /\ lastOp = "protectPage"
    /\ pc = "idle"
    /\ requiresAuthentication(path)
    /\ containers
    => /\ ret \in {"true", "false"}
       /\ ret = "true" <=> (was = "live" /\ answer = "none")
       /\ ret = isAuthenticated(World, now, NoFail).r
       /\ view = IF ret = "true" THEN [login |-> "none", admin |-> "block"]
                 ELSE [login |-> "block", admin |-> "none"]

\* protectPage() has shown the admin container on the dashboard
C11_Witness ==
    /\ lastOp = "protectPage"
    /\ pc = "idle"
    /\ requiresAuthentication(path)
    /\ containers
    /\ ret = "true"
    /\ was = "live"
    /\ ticks > 0
    /\ view = [login |-> "none", admin |-> "block"]

\* C12: on a page that is not an admin page, protectPage() returns true and
\* changes neither the containers' visibility nor the in-memory session
\* fields nor the stored text.
C12_PublicPageUntouched ==
    [][lastOp' = "protectPage" /\ ~requiresAuthentication(path)
          => /\ ret' = "true"
             /\ pc' = "idle"
             /\ UNCHANGED <<view, currentUser, sessionExpiry, lastActivity,
                            isInitialized, storage>>]_vars

\* protectPage() has returned true on a page that is not an admin page and
\* holds the containers, leaving an expired session in place
C12_Witness ==
    /\ lastOp = "protectPage"
    /\ ~requiresAuthentication(path)
    /\ containers
    /\ ret = "true"
    /\ was = "expired"
    /\ currentUser # NullUser
    /\ storage.kind = "json"

C14_Claim ==
    [][/\ lastOp = "refreshSession" /\ pc = "idle"
       /\ lastOp' = "refreshSession" /\ pc' = "idle" /\ answer' = "none"
       => /\ ret' = ret
          /\ currentUser' = currentUser
          /\ sessionExpiry' = sessionExpiry
          /\ storage' = storage]_vars

\* C15: a clearSession() call made right after a clearSession() call
\* changes nothing: no stored record, no in-memory user and no in-memory
\* expiry before it and after it.
C15_ClearTwice ==
    [][lastOp = "clearSession" /\ lastOp' = "clearSession"
          => /\ storage' = Absent /\ currentUser' = NullUser /\ sessionExpiry' = 0
             /\ UNCHANGED <<storage, currentUser, sessionExpiry, lastActivity>>]_vars

\* clearSession() has run on a manager without session and without record
C15_Witness ==
    /\ lastOp = "clearSession"
    /\ was = "none"
    /\ seen = "absent"
    /\ storage = Absent
    /\ currentUser = NullUser
    /\ sessionExpiry = 0
    /\ lastActivity = now
    /\ ticks > 0

\* C16: an activity update (a direct updateActivity() call, or one made by
\* the activity handler) that finds the session live and its record stored
\* moves the expiry to now + SESSION_TIMEOUT, however long ago the session
\* was created, and leaves the session live; and a session renewed that way
\* is still live at any later time up to ACTIVITY_TIMEOUT after the update.
C16_SlidingExpiry ==
    [][/\ /\ lastOp' \in {"updateActivity", "handleActivity"}
          /\ lastOp' = "handleActivity" => handlerCalled'
          /\ answer' = "none"
          /\ Status(currentUser, sessionExpiry, lastActivity, now) = "live"
          /\ storage.kind = "json"
          => /\ sessionExpiry' = now + SESSION_TIMEOUT
             /\ lastActivity' = now
             /\ Status(currentUser', sessionExpiry', lastActivity', now') = "live"
       /\ /\ lastOp' = "tick"
          /\ Status(currentUser, sessionExpiry, lastActivity, now) = "live"
          /\ sessionExpiry = lastActivity + SESSION_TIMEOUT
          /\ now' - lastActivity <= ACTIVITY_TIMEOUT
          => Status(currentUser', sessionExpiry', lastActivity', now') = "live"]_vars

\* the activity handler has renewed a session more than SESSION_TIMEOUT
\* after its loginTime, and the manager is authenticated
C16_Witness ==
    /\ lastOp = "handleActivity"
    /\ handlerCalled
    /\ was = "live"
    /\ storage.kind = "json"
    /\ now > storage.data.loginTime + SESSION_TIMEOUT
    /\ sessionExpiry = now + SESSION_TIMEOUT
    /\ isAuthenticated(World, now, NoFail).r = "true"

\* a load of the loader has settled: its promise is fulfilled
Settled(c) == loaded[c] \in {"true", "false"}

\* C17: initializeComponentFeatures runs at most once, only when both the
\* header load and the footer load have settled, and it has run exactly once
\* when loadAllComponents has finished.
C17_InitAfterBothSettle ==
    /\ inits <= 1
    /\ inits = 1 => \A c \in Components : Settled(c)
    /\ inits = 1 <=> entry = "done"

\* initializeComponentFeatures has run after the footer's fetch failed and
\* the header's, started first, succeeded
C17_Witness ==
    /\ inits = 1
    /\ entry = "done"
    /\ loaded["header"] = "true"
    /\ loaded["footer"] = "false"
    /\ response["footer"].state = "rejected"
    /\ response["header"].state = "complete"

\* C18: once the load of an existing container has settled, the container
\* holds the fetched text and the load's result is true if its own fetch
\* succeeded (success status, text read); otherwise it holds the error
\* message naming its own component and the result is false; it never still
\* holds the loading indicator.
C18_LoadsIndependent ==
    \A c \in Components :
        present[c] /\ Settled(c) =>
            IF response[c].state = "complete"
            THEN /\ Ok(response[c].status)
                 /\ innerHTML[c] = Fetched(response[c].text)
                 /\ loaded[c] = "true"
            ELSE /\ innerHTML[c].kind = "error"
                 /\ innerHTML[c].name = c
                 /\ loaded[c] = "false"

\* the footer's fetch has returned 404 and the header's text is injected
C18_Witness ==
    /\ present["header"] /\ present["footer"]
    /\ response["footer"].status = 404
    /\ innerHTML["footer"] = ErrorBox("footer", HttpError(404))
    /\ loaded["footer"] = "false"
    /\ innerHTML["header"] = Fetched("<div>H</div>")
    /\ loaded["header"] = "true"

\* C19: for a container that is absent, loadHTMLComponent returns false,
\* issues no fetch and assigns no content.
C19_AbsentContainer ==
    \A c \in Components :
        ~present[c] =>
            /\ response[c] = NoFetch
            /\ innerHTML[c] = Markup
            /\ entry \in {"waiting", "done"} => loaded[c] = "false"

\* the header's container is absent, its load has returned false, and the
\* footer has been loaded
C19_Witness ==
    /\ ~present["header"]
    /\ present["footer"]
    /\ entry = "done"
    /\ loaded["header"] = "false"
    /\ loaded["footer"] = "true"
    /\ response["header"] = NoFetch

\* C20: under the file: scheme the DOMContentLoaded handler reports the
\* error and stops: no fetch is issued, no container's content is assigned and
\* initializeComponentFeatures does not run.
C20_FileSchemeAborts ==
    protocol = "file:" =>
        /\ \A c \in Components :
              response[c] = NoFetch /\ innerHTML[c] = Markup /\ loaded[c] = "none"
        /\ inits = 0
        /\ entry \in {"ready", "aborted"}
        /\ entry = "aborted" => notice # "none"

\* the handler has stopped on a page served with the file: scheme that holds
\* both containers
C20_Witness ==
    /\ protocol = "file:"
    /\ entry = "aborted"
    /\ notice = "shown"
    /\ \A c \in Components : present[c]

\* C21 (as stated): when the user answers OK to the inactivity dialog of a
\* session that has not expired, the call completes without a further
\* dialog, lastActivity is the current time, the expiry is a full
\* SESSION_TIMEOUT ahead and the user is still logged in; and a session that
\* has not expired is cleared from the dialog only by Cancel.
C21_Claim ==
    [][/\ pc = "confirm"
       /\ answer' # "none"
       /\ Status(currentUser, sessionExpiry, lastActivity, now) = "stale"
       => /\ answer' = "ok" =>
                /\ pc' = "idle"
                /\ lastActivity' = now
                /\ sessionExpiry' = now + SESSION_TIMEOUT
                /\ currentUser' = currentUser
          /\ currentUser' = NullUser => answer' = "cancel"]_vars

\* C22 (as stated): when the constructor's initializeSession() or
\* refreshSession() has returned, it has returned true exactly if the
\* in-memory user is set and isAuthenticated() is true.
C22_Claim ==
    lastOp \in {"constructor", "refreshSession"} /\ pc = "idle" =>
        (ret = "true" <=>
            currentUser # NullUser /\ isAuthenticated(World, now, NoFail).r = "true")

\* C23 (as stated): hasPermission() called with the role 'admin' by a user
\* who is authenticated returns true, whatever the user's role.
C23_Claim ==
    /\ lastOp = "hasPermission"
    /\ required = "admin"
    /\ was = "live"
    => ret = "true"

\* user objects with the same properties
SameUser(a, b) ==
    a.kind = b.kind /\ a.id = b.id /\ a.username = b.username /\ a.role = b.role

\* C24: while this page's manager is the only writer of the storage key and
\* the storage calls succeed, whenever the in-memory user is set the stored
\* text is a record with that user, the in-memory expiry and the in-memory
\* lastActivity; and the in-memory user is null exactly if the in-memory
\* expiry is null.
C24_MemoryMirrorsStorage ==
    /\ currentUser # NullUser =>
          /\ storage.kind = "json"
          /\ SameUser(storage.data.user, currentUser)
          /\ storage.data.expiry = sessionExpiry
          /\ storage.data.lastActivity = lastActivity
    /\ currentUser = NullUser <=> sessionExpiry = 0

\* an activity event has renewed, after the clock advanced, a session
\* restored from storage
C24_Witness ==
    /\ lastOp = "handleActivity"
    /\ handlerCalled
    /\ now > StartTime
    /\ currentUser.ref = "parsed"
    /\ lastActivity = now

\* C25: with two tabs, while no record is stored, no updateActivity(),
\* isAuthenticated() or activity event of either tab stores one; only a
\* createSession() that returns true does; and a refreshSession() called
\* while no record is stored leaves the tab that called it unauthenticated.
C25_RemovedStaysRemoved ==
    [][storage = Absent =>
          /\ \/ lastOp' \in {"updateActivity", "isAuthenticated", "handleActivity"}
             \/ lastOp' = "peer" /\ peer'.op \in {"updateActivity", "isAuthenticated"}
             => storage' = Absent
          /\ storage' # Absent =>
                \/ lastOp' = "createSession" /\ ret' = "true"
                \/ lastOp' = "peer" /\ peer'.op = "createSession" /\ peer'.ret = "true"
          /\ lastOp' = "refreshSession" /\ answer' = "none" =>
                currentUser' = NullUser /\ ret' = "false" /\ pc' = "idle"
          /\ lastOp' = "peer" /\ peer'.op = "refreshSession" =>
                peer'.cu = NullUser /\ peer'.ret = "false"]_vars

\* the second tab has logged out and removed the record while this tab
\* held a live session, and this tab's updateActivity() has then run: the
\* tab is still logged in and no record is stored
C25_Witness ==
    /\ peer.op = "logout"
    /\ lastOp = "updateActivity"
    /\ was = "live"
    /\ seen = "absent"
    /\ currentUser # NullUser
    /\ lastActivity = now
    /\ storage = Absent

\* C26 (as stated): when, after a successful createSession(), every
\* activity event comes less than ACTIVITY_TIMEOUT after the one before it,
\* no isAuthenticated() takes its inactivity branch (the dialog is never
\* shown) and no step ends the session.
C26_Claim ==
    /\ pc # "confirm"
    /\ was # "none" => currentUser # NullUser

====
